---- MODULE Spec2Model ----
(***************************************************************************)
(* Model of src/src/lib.rs: sorting a structure-of-arrays dataset          *)
(* (DataOriented) through a permutation of indices, next to the            *)
(* array-of-structures reference (Vec<Classic>) it is compared with in     *)
(* tests::data_oriented_sort_is_valid.                                     *)
(*                                                                         *)
(* Indices are kept 0-based as in the source; a TLA+ sequence s holds the  *)
(* element of Rust index i at s[i + 1].                                    *)
(***************************************************************************)
EXTENDS Integers, Sequences, FiniteSets

VARIABLES
    pc,             \* position in the test body / in the stand-alone call
    classics,       \* Vec<Classic>: the row-oriented dataset
    data_oriented,  \* DataOriented: one sequence per field
    permutations,   \* Vec<usize> returned by permutations_unstable_by_key
    ub,             \* TRUE once an unchecked access was out of range
    original,       \* history: data_oriented as constructed
    wpc,            \* per field: position of the worker applying to that field
    vec             \* the sequence handed to a stand-alone apply_permutations call

vars == <<pc, classics, data_oriented, permutations, ub, original, wpc, vec>>

----------------------------------------------------------------------------
(* Bounds *)

MaxLen == 3

MaxVal == 1

----------------------------------------------------------------------------
(* Data types *)

FieldNames == <<"query_index", "distance", "attribute", "word_index", "is_exact">>

FieldSet == {FieldNames[k] : k \in 1..Len(FieldNames)}

FieldType(f) == IF f = "is_exact" THEN BOOLEAN ELSE 0..MaxVal

Classic ==
    [query_index : 0..MaxVal, distance : 0..MaxVal, attribute : 0..MaxVal,
     word_index : 0..MaxVal, is_exact : BOOLEAN]

\* Ord for bool: false < true
BoolOrd(b) == IF b THEN 1 ELSE 0

Zero ==
    [query_index |-> 0, distance |-> 0, attribute |-> 0, word_index |-> 0,
     is_exact |-> FALSE]

\* the records the random source hands out in this model: those that differ
\* from the all-zero record in at most one field
Standard ==
    {Zero} \cup {[Zero EXCEPT !.is_exact = TRUE]}
    \cup {[Zero EXCEPT ![f] = x] : f \in FieldSet \ {"is_exact"}, x \in 1..MaxVal}

\* #[derive(Ord)] on Classic: lexicographic in declaration order
ClassicLe(a, b) ==
    IF a.query_index # b.query_index THEN a.query_index < b.query_index
    ELSE IF a.distance # b.distance THEN a.distance < b.distance
    ELSE IF a.attribute # b.attribute THEN a.attribute < b.attribute
    ELSE IF a.word_index # b.word_index THEN a.word_index < b.word_index
    ELSE BoolOrd(a.is_exact) <= BoolOrd(b.is_exact)

\* Ord for tuples: lexicographic over the components, left to right
RECURSIVE TupleLeFrom(_, _, _)
TupleLeFrom(k1, k2, n) ==
    IF n > Len(k1) THEN TRUE
    ELSE IF k1[n] # k2[n] THEN k1[n] < k2[n]
    ELSE TupleLeFrom(k1, k2, n + 1)

TupleLe(k1, k2) == TupleLeFrom(k1, k2, 1)

\* new_classics: `len` records, field by field from the same source
new_classics(recs) == recs

\* DataOriented::new: the same `len` samples, one sequence per field
DataOrientedNew(recs) ==
    [f \in FieldSet |-> [i \in 1..Len(recs) |-> recs[i][f]]]

\* DataOriented::len
DataOrientedLen(d) == Len(d.query_index)

EmptyData == [f \in FieldSet |-> <<>>]

----------------------------------------------------------------------------
(* Library operations the source calls *)

\* all bijections of 1..n
Bijections(n) ==
    {s \in [1..n -> 1..n] : \A a, b \in 1..n : s[a] = s[b] => a = b}

\* every rearrangement of the sequence v
Arrangements(v) ==
    {[j \in 1..Len(v) |-> v[s[j]]] : s \in Bijections(Len(v))}

\* slice::sort_unstable_by: v rearranged so that the order le (the set of
\* pairs <<a, b>> with a <= b) holds along it; elements that compare equal may
\* end in any relative order
SortUnstableBy(v, le) ==
    {w \in Arrangements(v) : \A j \in 1..(Len(w) - 1) : <<w[j], w[j + 1]>> \in le}

\* a variant of the range with an inclusive end
RangeCollectInclusive(len) == [j \in 1..(len + 1) |-> j - 1]

\* (0..len).collect()
RangeCollect(len) == [j \in 1..len |-> j - 1]

\* slice::get_unchecked(i): the element when i is in range, anything of the
\* element type otherwise
InRange(v, i) == i \in 0..(Len(v) - 1)

GetUnchecked(v, i, T) == IF InRange(v, i) THEN {v[i + 1]} ELSE T

----------------------------------------------------------------------------
(* The functions of the crate *)

\* variants of the key closure: fields in reverse order, last field left out
KeyReversed(d, i) ==
    <<BoolOrd(d.is_exact[i + 1]), d.word_index[i + 1], d.attribute[i + 1],
      d.distance[i + 1], d.query_index[i + 1]>>

KeyNoExact(d, i) ==
    <<d.query_index[i + 1], d.distance[i + 1], d.attribute[i + 1],
      d.word_index[i + 1]>>

\* the key closure of the test: the tuple of the five fields at index i
Key(d, i) ==
    <<d.query_index[i + 1], d.distance[i + 1], d.attribute[i + 1],
      d.word_index[i + 1], BoolOrd(d.is_exact[i + 1])>>

KeyInRange(d, i) == \A f \in FieldSet : InRange(d[f], i)

\* permutations_unstable_by_key(len, |i| key of d at i): the possible returns
permutations_unstable_by_key(len, d) ==
    LET idx == RangeCollect(len)
        used == {idx[j] : j \in 1..Len(idx)}
        KeyLe == {ij \in used \X used : TupleLe(Key(d, ij[1]), Key(d, ij[2]))}
        called == Len(idx) >= 2
        valid == \A j \in 1..Len(idx) : KeyInRange(d, idx[j])
    IN  IF called /\ ~valid
        THEN {[permutations |-> p, ub |-> TRUE] : p \in Arrangements(idx)}
        ELSE {[permutations |-> p, ub |-> FALSE] : p \in SortUnstableBy(idx, KeyLe)}

\* lines 104-108: `new` filled from the first n entries of P, each element
\* read with get_unchecked and cloned
Copied(P, v, T, n) ==
    LET oob == \E j \in 1..n : ~InRange(v, P[j])
        news == {m \in [1..n -> T] :
                   \A j \in 1..n : m[j] \in GetUnchecked(v, P[j], T)}
    IN  {[status |-> "ok", vec |-> m, ub |-> oob] : m \in news}
        \cup (IF oob THEN {[status |-> "crash", vec |-> v, ub |-> TRUE]} ELSE {})

Panic(v) == {[status |-> "panic", vec |-> v, ub |-> FALSE]}

\* variants of apply_permutations with a slip in them
ApplyByPosition(P, v, T) ==
    IF Len(P) # Len(v) THEN Panic(v)
    ELSE {[status |-> "ok", vec |-> v, ub |-> FALSE]}

ApplyDropLast(P, v, T) ==
    IF Len(P) # Len(v) THEN Panic(v)
    ELSE Copied(P, v, T, IF Len(P) > 0 THEN Len(P) - 1 ELSE 0)

ApplyNoAssert(P, v, T) == Copied(P, v, T, Len(P))

\* apply_permutations(permutations, vec) on elements of type T: the possible
\* outcomes
apply_permutations(P, v, T) ==
    IF Len(P) # Len(v) THEN Panic(v)
    ELSE Copied(P, v, T, Len(P))

\* the per-index comparison of the two datasets in the test (a checked index
\* out of range panics, like a failed assertion)
SameRecords(cs, d) ==
    /\ \A f \in FieldSet : Len(d[f]) >= Len(cs)
    /\ \A i \in 1..Len(cs) : \A f \in FieldSet : cs[i][f] = d[f][i]

----------------------------------------------------------------------------
(* tests::data_oriented_sort_is_valid, for any length and any seed *)

IdleWorkers == [f \in FieldSet |-> "idle"]

Init ==
    \E n \in 0..MaxLen : \E recs \in [1..n -> Standard] :
        /\ classics = new_classics(recs)
        /\ data_oriented = DataOrientedNew(recs)
        /\ original = DataOrientedNew(recs)
        /\ permutations = <<>>
        /\ pc = "before_sort"
        /\ ub = FALSE
        /\ wpc = IdleWorkers
        /\ vec = <<>>

CheckBeforeSort ==
    /\ pc = "before_sort"
    /\ pc' = IF SameRecords(classics, data_oriented) THEN "sort_classics" ELSE "assert_failed"
    /\ UNCHANGED <<classics, data_oriented, permutations, ub, original, wpc, vec>>

SortClassics ==
    /\ pc = "sort_classics"
    /\ classics' \in SortUnstableBy(classics, {ab \in Classic \X Classic : ClassicLe(ab[1], ab[2])})
    /\ pc' = "permutations"
    /\ UNCHANGED <<data_oriented, permutations, ub, original, wpc, vec>>

ComputePermutations ==
    /\ pc = "permutations"
    /\ \E o \in permutations_unstable_by_key(DataOrientedLen(data_oriented), data_oriented) :
          /\ permutations' = o.permutations
          /\ ub' = (ub \/ o.ub)
    /\ pc' = "apply_query_index"
    /\ UNCHANGED <<classics, data_oriented, original, wpc, vec>>

\* one call apply_permutations(&permutations, &mut data_oriented.f)
Apply(f, here, next) ==
    /\ pc = here
    /\ \E o \in apply_permutations(permutations, data_oriented[f], FieldType(f)) :
          /\ data_oriented' = [data_oriented EXCEPT ![f] = o.vec]
          /\ ub' = (ub \/ o.ub)
          /\ pc' = CASE o.status = "ok" -> next
                     [] o.status = "panic" -> "panicked"
                     [] OTHER -> "crashed"
    /\ UNCHANGED <<classics, permutations, original, wpc, vec>>

ApplyQueryIndex == Apply("query_index", "apply_query_index", "apply_distance")

ApplyDistance == Apply("distance", "apply_distance", "apply_attribute")

ApplyAttribute == Apply("attribute", "apply_attribute", "apply_word_index")

ApplyWordIndex == Apply("word_index", "apply_word_index", "apply_is_exact")

ApplyIsExact == Apply("is_exact", "apply_is_exact", "after_sort")

CheckAfterSort ==
    /\ pc = "after_sort"
    /\ pc' = IF SameRecords(classics, data_oriented) THEN "passed" ELSE "assert_failed"
    /\ UNCHANGED <<classics, data_oriented, permutations, ub, original, wpc, vec>>

Next ==
    \/ CheckBeforeSort
    \/ SortClassics
    \/ ComputePermutations
    \/ ApplyQueryIndex
    \/ ApplyDistance
    \/ ApplyAttribute
    \/ ApplyWordIndex
    \/ ApplyIsExact
    \/ CheckAfterSort

Spec == Init /\ [][Next]_vars

----------------------------------------------------------------------------
(* apply_permutations called on its own, with any index slice and any       *)
(* sequence the signature admits                                            *)

IndexSeqs == UNION {[1..n -> 0..(MaxLen - 1)] : n \in 0..MaxLen}

ValueSeqs == UNION {[1..n -> 0..MaxVal] : n \in 0..MaxLen}

InitApply ==
    /\ permutations \in IndexSeqs
    /\ vec \in ValueSeqs
    /\ pc = "call"
    /\ classics = <<>>
    /\ data_oriented = EmptyData
    /\ original = EmptyData
    /\ ub = FALSE
    /\ wpc = IdleWorkers

CallApply ==
    /\ pc = "call"
    /\ \E o \in apply_permutations(permutations, vec, 0..MaxVal) :
          /\ vec' = o.vec
          /\ ub' = (ub \/ o.ub)
          /\ pc' = CASE o.status = "ok" -> "returned"
                     [] o.status = "panic" -> "panicked"
                     [] OTHER -> "crashed"
    /\ UNCHANGED <<classics, data_oriented, permutations, original, wpc>>

NextApply == CallApply

SpecApply == InitApply /\ [][NextApply]_vars

----------------------------------------------------------------------------
(* The five applications run by independent workers, joined at the end      *)

InitPar ==
    \E n \in 0..MaxLen : \E recs \in [1..n -> Standard] :
        /\ classics = new_classics(recs)
        /\ data_oriented = DataOrientedNew(recs)
        /\ original = DataOrientedNew(recs)
        /\ permutations = <<>>
        /\ pc = "permutations"
        /\ ub = FALSE
        /\ wpc = IdleWorkers
        /\ vec = <<>>

ParPermutations ==
    /\ pc = "permutations"
    /\ \E o \in permutations_unstable_by_key(DataOrientedLen(data_oriented), data_oriented) :
          /\ permutations' = o.permutations
          /\ ub' = (ub \/ o.ub)
    /\ pc' = "workers"
    /\ UNCHANGED <<classics, data_oriented, original, wpc, vec>>

\* the call of the worker of field f
WorkerApply(f) ==
    /\ pc = "workers"
    /\ wpc[f] = "idle"
    /\ \E o \in apply_permutations(permutations, data_oriented[f], FieldType(f)) :
          /\ data_oriented' = [data_oriented EXCEPT ![f] = o.vec]
          /\ ub' = (ub \/ o.ub)
          /\ wpc' = [wpc EXCEPT ![f] = CASE o.status = "ok" -> "done"
                                         [] o.status = "panic" -> "panicked"
                                         [] OTHER -> "crashed"]
    /\ UNCHANGED <<pc, classics, permutations, original, vec>>

Join ==
    /\ pc = "workers"
    /\ \A f \in FieldSet : wpc[f] = "done"
    /\ pc' = "joined"
    /\ UNCHANGED <<classics, data_oriented, permutations, ub, original, wpc, vec>>

NextPar ==
    \/ ParPermutations
    \/ \E f \in FieldSet : WorkerApply(f)
    \/ Join

SpecPar == InitPar /\ [][NextPar]_vars

----------------------------------------------------------------------------
(* Vocabulary of the properties *)

N == Len(original.query_index)

\* the logical record at position i (1-based) of a columnar dataset
RecordAt(d, i) == [f \in FieldSet |-> d[f][i]]

FieldOrd(f, x) == IF f = "is_exact" THEN BoolOrd(x) ELSE x

\* r1 <= r2 in the lexicographic order over (query_index, distance,
\* attribute, word_index, is_exact)
LexLe(r1, r2) ==
    \/ r1 = r2
    \/ \E k \in 1..Len(FieldNames) :
          /\ \A m \in 1..(k - 1) : r1[FieldNames[m]] = r2[FieldNames[m]]
          /\ FieldOrd(FieldNames[k], r1[FieldNames[k]]) < FieldOrd(FieldNames[k], r2[FieldNames[k]])

SeqRange(s) == {s[i] : i \in 1..Len(s)}

SeqBag(s) == [x \in SeqRange(s) |-> Cardinality({i \in 1..Len(s) : s[i] = x})]

RecordsOf(d) == [i \in 1..Len(d.query_index) |-> RecordAt(d, i)]

SameLengths(d, n) == \A f \in FieldSet : Len(d[f]) = n

\* P holds every index of 0..n-1 exactly once and nothing else
IsPermutation(P, n) ==
    /\ Len(P) = n
    /\ \A j \in 1..Len(P) : P[j] \in 0..(n - 1)
    /\ \A i \in 0..(n - 1) : Cardinality({j \in 1..Len(P) : P[j] = i}) = 1

\* the keys of the records of d are non-decreasing along P
NonDecreasing(P, d) ==
    \A j \in 1..(Len(P) - 1) :
        LexLe(RecordAt(d, P[j] + 1), RecordAt(d, P[j + 1] + 1))

\* S'[j] = S[P[j]] on each of the five sequences
Permuted(d, P) == [f \in FieldSet |-> [j \in 1..Len(P) |-> d[f][P[j] + 1]]]

Identity(P) == \A j \in 1..Len(P) : P[j] = j - 1

\* P is in range and is not its own inverse
NotInvolution(P) ==
    /\ \A j \in 1..Len(P) : P[j] \in 0..(Len(P) - 1)
    /\ \E j \in 1..Len(P) : P[P[j] + 1] # j - 1

HasPermutations == pc \in {"apply_query_index", "apply_distance", "apply_attribute",
                           "apply_word_index", "apply_is_exact", "after_sort", "passed"}

Sorted == pc \in {"after_sort", "passed"}

----------------------------------------------------------------------------
(* Properties *)

\* C1: once the row-oriented dataset is sorted by its lexicographic order and
\* the columnar one through the permutation applied to its five sequences,
\* the tuple of the five fields at every index i equals row i, and the test's
\* final comparison passes.
C1_CrossFieldAlignment ==
    /\ pc # "assert_failed"
    /\ Sorted =>
          /\ Len(classics) = N
          /\ SeqBag(classics) = SeqBag(RecordsOf(original))
          /\ \A i \in 1..(N - 1) : LexLe(classics[i], classics[i + 1])
          /\ SameLengths(data_oriented, N)
          /\ \A i \in 1..N : RecordAt(data_oriented, i) = classics[i]

C1_Witness ==
    /\ pc = "passed"
    /\ N >= 3
    /\ NotInvolution(permutations)
    /\ \E i, j \in 1..N : classics[i].query_index # classics[j].query_index

\* C2: the sequence permutations_unstable_by_key returns has length N and
\* holds every index of 0..N-1 exactly once and no other value.
C2_Bijection == HasPermutations => IsPermutation(permutations, N)

C2_Witness ==
    /\ pc = "apply_query_index"
    /\ N >= 3
    /\ ~Identity(permutations)

\* C3: along the returned sequence the key tuples are non-decreasing in the
\* lexicographic order over (query_index, distance, attribute, word_index,
\* is_exact).
C3_NonDecreasing == HasPermutations => NonDecreasing(permutations, original)

C3_Witness ==
    /\ pc = "apply_query_index"
    /\ N >= 3
    /\ ~Identity(permutations)
    /\ \E j \in 1..(N - 1) :
          LET a == RecordAt(original, permutations[j] + 1)
              b == RecordAt(original, permutations[j + 1] + 1)
          IN  a.query_index = b.query_index /\ a # b
    /\ \E j \in 1..(N - 1) :
          RecordAt(original, permutations[j] + 1) = RecordAt(original, permutations[j + 1] + 1)

\* C4: for a permutation P of 0..N-1 and a sequence S of length N, a call of
\* apply_permutations returns with S of length N, S'[j] = S[P[j]] for every j,
\* and P unchanged.
C4_Gather ==
    [][(pc = "call" /\ pc' # pc /\ IsPermutation(permutations, Len(vec))) =>
          /\ pc' = "returned"
          /\ Len(vec') = Len(vec)
          /\ \A j \in 1..Len(vec) : vec'[j] = vec[permutations[j] + 1]
          /\ permutations' = permutations]_vars

C4_Witness ==
    /\ pc = "returned"
    /\ Len(vec) >= 3
    /\ IsPermutation(permutations, Len(vec))
    /\ NotInvolution(permutations)
    /\ \E i, j \in 1..Len(vec) : vec[i] # vec[j]

\* C5 as stated: whenever the lengths agree and the call returns, the multiset
\* of elements of S is the one from before the call.
C5_AnyAcceptedP ==
    [][(pc = "call" /\ pc' = "returned" /\ ~ub' /\ Len(permutations) = Len(vec)) =>
          SeqBag(vec') = SeqBag(vec)]_vars

\* C5, amended: when P is a permutation of 0..N-1 and S has length N, the
\* multiset of elements of S after the call is the one from before the call.
C5_MultisetUnderPermutation ==
    [][(pc = "call" /\ pc' # pc /\ IsPermutation(permutations, Len(vec))) =>
          /\ pc' = "returned"
          /\ SeqBag(vec') = SeqBag(vec)]_vars

C5_Witness ==
    /\ pc = "returned"
    /\ Len(vec) >= 2
    /\ IsPermutation(permutations, Len(vec))
    /\ ~Identity(permutations)
    /\ \E i, j \in 1..Len(vec) : vec[i] # vec[j]

\* C6: a call with P.len() # S.len() ends in the assertion's panic, with no
\* element of S read and with S and P as they were.
C6_LengthMismatchPanics ==
    [][(pc = "call" /\ pc' # pc /\ Len(permutations) # Len(vec)) =>
          /\ pc' = "panicked"
          /\ ub' = FALSE
          /\ vec' = vec
          /\ permutations' = permutations]_vars

C6_Witness ==
    /\ pc = "panicked"
    /\ Len(permutations) # Len(vec)
    /\ Len(vec) >= 1
    /\ \E j \in 1..Len(permutations) : ~InRange(vec, permutations[j])

\* C7: every bijection on 0..N-1 along which the five-field keys of the input
\* are non-decreasing gives, applied to the five sequences of the input, the
\* dataset the sort ended with, which equals the sorted rows.
C7_DeterminismModuloTies ==
    Sorted =>
        \A s \in Bijections(N) :
            LET P == [j \in 1..N |-> s[j] - 1]
            IN  NonDecreasing(P, original) =>
                   /\ Permuted(original, P) = data_oriented
                   /\ RecordsOf(Permuted(original, P)) = classics

C7_Witness ==
    /\ pc = "passed"
    /\ N >= 3
    /\ \E s \in Bijections(N) :
          LET P == [j \in 1..N |-> s[j] - 1]
          IN  NonDecreasing(P, original) /\ P # permutations
    /\ \E i, j \in 1..N : classics[i] # classics[j]

\* C8 as stated: before and after each of the five apply_permutations calls
\* the tuples at the N indices are the N records the dataset was built from,
\* and the five sequences have length N.
C8_AlignedAroundEachCall ==
    HasPermutations =>
        /\ SameLengths(data_oriented, N)
        /\ SeqBag(RecordsOf(data_oriented)) = SeqBag(RecordsOf(original))

\* C8, amended: the five sequences have length N before and after each call;
\* the tuples at the N indices are the N records the dataset was built from
\* before the first call and after the fifth.
C8_AlignedAroundTheFiveCalls ==
    HasPermutations =>
        /\ SameLengths(data_oriented, N)
        /\ (pc = "apply_query_index" \/ Sorted) =>
              SeqBag(RecordsOf(data_oriented)) = SeqBag(RecordsOf(original))

C8_Witness ==
    /\ pc = "after_sort"
    /\ N >= 3
    /\ ~Identity(permutations)
    /\ data_oriented # original

\* C9: in the columnar sort no unchecked access is out of range: the indices
\* handed to the key closure are below the length of each of the five
\* sequences, and the indices apply_permutations reads are below vec.len().
C9_NoOutOfBounds ==
    /\ ~ub
    /\ pc # "crashed"
    /\ pc = "permutations" =>
          \A j \in 1..DataOrientedLen(data_oriented) :
              KeyInRange(data_oriented, RangeCollect(DataOrientedLen(data_oriented))[j])
    /\ HasPermutations =>
          \A f \in FieldSet : \A j \in 1..Len(permutations) :
              InRange(data_oriented[f], permutations[j])

C9_Witness ==
    /\ pc = "passed"
    /\ N >= 3
    /\ ~Identity(permutations)
    /\ ~ub

\* a step touches nothing of field f: neither its sequence nor its worker
Untouched(f) ==
    /\ data_oriented'[f] = data_oriented[f]
    /\ wpc'[f] = wpc[f]

\* C10: a step of the worker of one field leaves the permutation and the
\* other four fields as they were, and whatever the order and interleaving of
\* the five workers the joined dataset is the input gathered through the
\* permutation.
C10_IndependentApplications ==
    /\ [][pc = "workers" =>
            /\ permutations' = permutations
            /\ \A f, g \in FieldSet : (f # g /\ ~Untouched(f)) => Untouched(g)]_vars
    /\ [](pc = "joined" => data_oriented = Permuted(original, permutations))

C10_Witness ==
    /\ pc = "joined"
    /\ N >= 3
    /\ NotInvolution(permutations)
    /\ data_oriented # original

====
